---- MODULE Spec2Model ----
(***************************************************************************)
(* Bootstrap sequence of webapp/main.js: fetchCurrentUser (retry chain),   *)
(* forceLogoutAndReload, parseJsonResponse, fetchUserLanguageFromSFSF,     *)
(* getBrowserLanguage, main and the top-level main().catch handler.        *)
(*                                                                         *)
(* Texts (response bodies, error messages) are sequences of tokens, each   *)
(* token standing for a run of characters; browser language tags are       *)
(* sequences of single characters.                                         *)
(***************************************************************************)
EXTENDS Integers, Sequences, FiniteSets, TLC

VARIABLES
    navigator,      \* [language, userLanguage]: the browser's language tags
    pc,             \* position of main / fetchCurrentUser / the catch handler
    attempt,        \* parameter `attempt` of the running fetchCurrentUser call
    fetchState,     \* "Idle" | "Fetching" | "Succeeded" | "Failed" | "Escalated"
    lastError,      \* message of the error fetchCurrentUser rejected with
    oUserData,      \* main's local oUserData (Null until the fetch returns)
    sLanguage,      \* main's local sLanguage ("" stands for null)
    xhr,            \* the /logout XMLHttpRequest: [readyState]
    reloaded,       \* window.location.reload(true) was called
    storage,        \* sessionStorage["com:missolicitudes:userInfo"] (<<>> = absent)
    appliedLocale,  \* language held by the core configuration ("" = never set)
    mounted,        \* number of root ComponentContainers placed at "content"
    clock,          \* milliseconds spent in retry timers
    outcomes,       \* history: how each Identity Endpoint attempt ended
    lastResponse,   \* history: what the fetch of the current attempt settled with
    directoryAnswer,\* history: what the Directory Service answered
    log             \* history: externally visible calls, in order

vars == <<navigator, pc, attempt, fetchState, lastError, oUserData, sLanguage,
          xhr, reloaded, storage, appliedLocale, mounted, clock, outcomes,
          lastResponse, directoryAnswer, log>>

----------------------------------------------------------------------------
(* Constants of main()                                                     *)

MAX_RETRIES == 5
RETRY_DELAY == 1000

----------------------------------------------------------------------------
(* JavaScript values                                                       *)

Null == [kind |-> "null"]
Undefined == [kind |-> "undefined"]
JNum(n) == [kind |-> "number", num |-> n]
JStr(s) == [kind |-> "string", str |-> s]
JObj(f) == [kind |-> "object", fields |-> f]

\* ToBoolean
Truthy(v) ==
    CASE v.kind = "null" -> FALSE
      [] v.kind = "undefined" -> FALSE
      [] v.kind = "number" -> v.num # 0
      [] v.kind = "string" -> v.str # ""
      [] OTHER -> TRUE

\* v.name for a non-null v
GetName(v) ==
    IF v.kind = "object" /\ "name" \in DOMAIN v.fields
    THEN JStr(v.fields.name)
    ELSE Undefined

----------------------------------------------------------------------------
(* Text helpers: String.prototype.trim / startsWith / includes             *)

IsSpace(t) == t \in {" ", "\n"}

RECURSIVE TrimLeft(_)
TrimLeft(s) ==
    IF s # <<>> /\ IsSpace(Head(s)) THEN TrimLeft(Tail(s)) ELSE s

RECURSIVE TrimRight(_)
TrimRight(s) ==
    IF s # <<>> /\ IsSpace(s[Len(s)]) THEN TrimRight(SubSeq(s, 1, Len(s) - 1)) ELSE s

Trim(s) == TrimRight(TrimLeft(s))

StartsWith(s, p) == Len(s) >= Len(p) /\ SubSeq(s, 1, Len(p)) = p

Includes(s, p) ==
    \E i \in 1..(Len(s) - Len(p) + 1) : SubSeq(s, i, i + Len(p) - 1) = p

----------------------------------------------------------------------------
(* getBrowserLanguage                                                      *)

\* String.prototype.toLowerCase, per character
LowerChar(c) ==
    CASE c = "A" -> "a" [] c = "C" -> "c" [] c = "E" -> "e" [] c = "F" -> "f"
      [] c = "M" -> "m" [] c = "N" -> "n" [] c = "R" -> "r" [] c = "S" -> "s"
      [] c = "U" -> "u" [] c = "X" -> "x"
      [] OTHER -> c

ToLowerCaseIdentity(s) == s

ToLowerCase(s) == [i \in 1..Len(s) |-> LowerChar(s[i])]

\* a || b on strings: the empty (or absent) string is falsy
OrElse(a, b) == IF a # <<>> THEN a ELSE b

mMapKeysEs == {<<"e", "s">>, <<"e", "s", "-", "e", "s">>, <<"e", "s", "_", "e", "s">>}
mMapKeysCa == {<<"c", "a">>, <<"c", "a", "-", "e", "s">>, <<"c", "a", "_", "e", "s">>}
mMapKeysEn == {<<"e", "n">>, <<"e", "n", "-", "u", "s">>, <<"e", "n", "_", "u", "s">>}

\* mMap[sLang]; "" stands for undefined (no such key)
mMap(sLang) ==
    CASE sLang \in mMapKeysEs -> "es_ES"
      [] sLang \in mMapKeysCa -> "ca_ES"
      [] sLang \in mMapKeysEn -> "en_US"
      [] OTHER -> ""

getBrowserLanguageNoDefault(nav) ==
    mMap(ToLowerCase(OrElse(OrElse(nav.language, nav.userLanguage), <<"e", "n">>)))

getBrowserLanguageOf(nav) ==
    LET sLang == ToLowerCase(OrElse(OrElse(nav.language, nav.userLanguage), <<"e", "n">>))
    IN  IF mMap(sLang) # "" THEN mMap(sLang) ELSE "en_US"

getBrowserLanguage == getBrowserLanguageOf(navigator)

SupportedLocales == {"es_ES", "ca_ES", "en_US"}

\* Browser configurations the page may be loaded in
Navigators ==
    { [language |-> <<"e", "s", "-", "E", "S">>, userLanguage |-> <<>>],
      [language |-> <<"C", "A">>, userLanguage |-> <<>>],
      [language |-> <<"e", "s", "-", "M", "X">>, userLanguage |-> <<>>],
      [language |-> <<>>, userLanguage |-> <<"c", "a", "_", "E", "S">>],
      [language |-> <<>>, userLanguage |-> <<>>] }

----------------------------------------------------------------------------
(* Identity Endpoint answers and parseJsonResponse                         *)

BodyUser == <<"{", "\"name\"", ":", "\"ana\"", "}">>
BodyUserPadded == <<"\n", " ", "{", "\"name\"", ":", "\"ana\"", "}", "\n">>
BodyUserMail == <<"{", "\"name\"", ":", "\"bob\"", ",", "\"email\"", ":", "\"b@x\"", "}">>
BodyEmptyName == <<"{", "\"name\"", ":", "\"\"", "}">>
BodyNoName == <<"{", "\"id\"", ":", "\"7\"", "}">>
BodyNumber == <<"7">>
BodyZero == <<"0">>
BodyNullLiteral == <<"null">>
BodyHtml == <<"<", "html", ">", "<", "body", ">", "login">>
BodyDoctype == <<"\n", " ", "<", "!DOCTYPE html", ">">>
BodyJsonWithHtml == <<"{", "\"name\"", ":", "\"", "<", "html", ">", "\"", "}">>
BodyGarbage == <<"Service", " ", "Unavailable">>
BodyEmpty == <<>>

Bodies ==
    { BodyUser, BodyUserPadded, BodyUserMail, BodyEmptyName, BodyNoName, BodyNumber,
      BodyZero, BodyNullLiteral, BodyHtml, BodyDoctype, BodyJsonWithHtml,
      BodyGarbage, BodyEmpty }

SyntaxError == [kind |-> "SyntaxError"]

\* JSON.parse on the texts above (leading and trailing whitespace is skipped)
JSONParse(text) ==
    LET t == Trim(text) IN
    CASE t = BodyUser -> JObj([name |-> "ana"])
      [] t = BodyUserMail -> JObj([name |-> "bob", email |-> "b@x"])
      [] t = BodyEmptyName -> JObj([name |-> ""])
      [] t = BodyNoName -> JObj([id |-> "7"])
      [] t = BodyNumber -> JNum(7)
      [] t = BodyZero -> JNum(0)
      [] t = BodyNullLiteral -> Null
      [] t = BodyJsonWithHtml -> JObj([name |-> "<html>"])
      [] OTHER -> SyntaxError

\* JSON.stringify on the values JSONParse yields
JSONStringify(v) ==
    CASE v = JObj([name |-> "ana"]) -> BodyUser
      [] v = JObj([name |-> "bob", email |-> "b@x"]) -> BodyUserMail
      [] v = JObj([name |-> ""]) -> BodyEmptyName
      [] v = JObj([id |-> "7"]) -> BodyNoName
      [] v = JObj([name |-> "<html>"]) -> BodyJsonWithHtml
      [] v = JNum(7) -> BodyNumber
      [] v = JNum(0) -> BodyZero
      [] OTHER -> BodyNullLiteral

LooksLikeHtml(sResponseText) ==
    \/ StartsWith(Trim(sResponseText), <<"<">>)
    \/ Includes(sResponseText, <<"<", "html", ">">>)

parseJsonResponseNoHtmlCheck(response) ==
    IF JSONParse(response.body) = SyntaxError THEN Null ELSE JSONParse(response.body)

\* The content-type header is only logged and is left out of the response.
parseJsonResponse(response) ==
    LET sResponseText == response.body IN
    IF LooksLikeHtml(sResponseText)
    THEN Null
    ELSE IF JSONParse(sResponseText) = SyntaxError
         THEN Null
         ELSE JSONParse(sResponseText)

Http(status, statusText, body) ==
    [type |-> "http", status |-> status, statusText |-> statusText, body |-> body]

Rejected(message) == [type |-> "error", message |-> message]

MsgFailedToFetch == <<"Failed", " ", "to", " ", "fetch">>
MsgJsonUpper == <<"Unexpected", " ", "token", " ", "in", " ", "JSON">>
MsgHtmlUpper == <<"HTML", " ", "import", " ", "blocked">>
MsgJsonLower == <<"invalid", " ", "json", " ", "url">>

ThrownMessages == {MsgFailedToFetch, MsgJsonUpper, MsgHtmlUpper, MsgJsonLower}

Responses ==
    { Http(401, <<"Unauthorized">>, BodyHtml),
      Http(403, <<"Forbidden">>, BodyEmpty),
      Http(500, <<"Internal", " ", "Server", " ", "Error">>, BodyGarbage),
      Http(404, <<"Not", " ", "Found">>, BodyHtml),
      Http(503, <<"HTML", " ", "gateway", " ", "down">>, BodyHtml) }
    \cup { Http(200, <<"OK">>, b) : b \in Bodies }
    \cup { Rejected(m) : m \in ThrownMessages }

\* Response.ok
ResponseOk(r) == r.status \in 200..299

----------------------------------------------------------------------------
(* fetchCurrentUser: the decisions of its try and catch blocks             *)

IsAuthStatusOnly401(status) == status = 401

\* if (oResponse.status === 401 || oResponse.status === 403)
IsAuthStatus(status) == status = 401 \/ status = 403

RetryAllowedOneMore(att, maxRetries) == att <= maxRetries

RetryAllowedOneLess(att, maxRetries) == att < maxRetries - 1

\* if (attempt < maxRetries)
RetryAllowed(att, maxRetries) == att < maxRetries

NextAttemptStays(att) == att

NextAttemptSkips(att) == att + 2

\* fetchCurrentUser(attempt + 1, maxRetries, retryDelay)
NextAttempt(att) == att + 1

\* `Error del servidor: ${status} ${statusText}`
ServerErrorMsg(r) ==
    <<"Error", " ", "del", " ", "servidor:", " ", ToString(r.status), " ">> \o r.statusText

InvalidUserMsg ==
    <<"Datos", " ", "de", " ", "usuario", " ", "invalidos:", " ", "falta", " ",
      "el", " ", "campo", " ", "'name'">>

MentionsJsonOnly(message) == Includes(message, <<"JSON">>)

\* error.message.includes("JSON") || error.message.includes("HTML")
MentionsJsonOrHtml(message) ==
    Includes(message, <<"JSON">>) \/ Includes(message, <<"HTML">>)

IsSessionErrorAnyMessage(att, message) == att = 1

\* if (attempt === 1 && (error.message.includes("JSON") || error.message.includes("HTML")))
IsSessionError(att, message) == att = 1 /\ MentionsJsonOrHtml(message)

\* catch (error) { ... }: what the catch block does with an error
CatchBlock(att, maxRetries, message) ==
    IF IsSessionError(att, message)
    THEN [do |-> "logout"]
    ELSE IF RetryAllowed(att, maxRetries)
         THEN [do |-> "retry"]
         ELSE [do |-> "throw", message |-> message]

NameMissingOnlyWhenAbsent(data) == GetName(data) = Undefined

\* if (!oUserData.name)
NameMissing(data) == ~Truthy(GetName(data))

\* try { ... } once the fetch has settled with r; an error thrown inside the
\* block is handed to the catch block, a `return fetchCurrentUser(...)` is not.
TryBlock(att, maxRetries, r) ==
    IF r.type = "error"
    THEN CatchBlock(att, maxRetries, r.message)
    ELSE IF ~ResponseOk(r)
    THEN IF IsAuthStatus(r.status)
         THEN [do |-> "logout"]
         ELSE IF RetryAllowed(att, maxRetries)
              THEN [do |-> "retry"]
              ELSE CatchBlock(att, maxRetries, ServerErrorMsg(r))
    ELSE LET data == parseJsonResponse(r) IN
         IF ~Truthy(data)
         THEN [do |-> "logout"]
         ELSE IF NameMissing(data)
              THEN CatchBlock(att, maxRetries, InvalidUserMsg)
              ELSE [do |-> "return", value |-> data]

\* History only: the kind of answer an attempt got. "generic": a non-2xx status
\* other than 401/403, or a thrown error whose message names neither JSON nor HTML.
OutcomeKind(r) ==
    IF r.type = "error"
    THEN IF MentionsJsonOrHtml(r.message) THEN "thrownJsonHtml" ELSE "generic"
    ELSE IF ~ResponseOk(r)
    THEN IF r.status \in {401, 403} THEN "auth" ELSE "generic"
    ELSE IF parseJsonResponse(r) = Null \/ ~Truthy(parseJsonResponse(r)) THEN "nonjson"
    ELSE IF GetName(parseJsonResponse(r)) \in {Undefined, JStr("")} THEN "noname"
    ELSE "user"

Ev(name, arg, threw) == [ev |-> name, arg |-> arg, threw |-> threw]

----------------------------------------------------------------------------
(* Directory Service answers                                               *)

Rec(locale) == [defaultLocale |-> locale]

\* [type |-> "success", hasResults, results] or [type |-> "error"]
DirectoryAnswers ==
    { [type |-> "success", hasResults |-> TRUE, results |-> rs] :
        rs \in { <<>>,
                 <<Rec(JStr("ca_ES")), Rec(JStr("en_US"))>>,
                 <<Rec(JStr("fr_FR"))>>,
                 <<Rec(JStr("")), Rec(JStr("ca_ES"))>>,
                 <<Rec(Undefined)>> } }
    \cup { [type |-> "success", hasResults |-> FALSE, results |-> <<>>],
           [type |-> "error", hasResults |-> FALSE, results |-> <<>>] }

ReadResultLastRecord(ans) ==
    IF ans.type = "error"
    THEN Null
    ELSE IF ans.hasResults /\ Len(ans.results) > 0
         THEN LET sLang == ans.results[Len(ans.results)].defaultLocale IN
              IF Truthy(sLang) THEN sLang ELSE Null
         ELSE Null

\* What the promise around oDataModel.read resolves with
ReadResult(ans) ==
    IF ans.type = "error"
    THEN Null
    ELSE IF ans.hasResults /\ Len(ans.results) > 0
         THEN LET sLang == ans.results[1].defaultLocale IN
              IF Truthy(sLang) THEN sLang ELSE Null
         ELSE Null

----------------------------------------------------------------------------
(* State machine                                                           *)

NoResponse == [type |-> "none"]
NoAnswer == [type |-> "none", hasResults |-> FALSE, results |-> <<>>]

Init ==
    /\ navigator \in Navigators
    /\ pc = "start"
    /\ attempt = 0
    /\ fetchState = "Idle"
    /\ lastError = <<>>
    /\ oUserData = Null
    /\ sLanguage = Null
    /\ xhr = [readyState |-> 0, status |-> 0]
    /\ reloaded = FALSE
    /\ storage = <<>>
    /\ appliedLocale = ""
    /\ mounted = 0
    /\ clock = 0
    /\ outcomes = <<>>
    /\ lastResponse = NoResponse
    /\ directoryAnswer = NoAnswer
    /\ log = <<>>

ForceLogoutWithoutSuspend ==
    /\ xhr' = [readyState |-> 1, status |-> 0]
    /\ log' = Append(log, Ev("logout", "", FALSE))
    /\ pc' = "delay"
    /\ UNCHANGED <<attempt, fetchState, lastError, oUserData>>

\* forceLogoutAndReload(); await new Promise(() => {})
ForceLogoutAndSuspend ==
    /\ xhr' = [readyState |-> 1, status |-> 0]
    /\ log' = Append(log, Ev("logout", "", FALSE))
    /\ fetchState' = "Escalated"
    /\ pc' = "suspended"
    /\ UNCHANGED <<attempt, lastError, oUserData>>

\* main() calls fetchCurrentUser(1, MAX_RETRIES, RETRY_DELAY), which issues the fetch
MainStart ==
    /\ pc = "start"
    /\ attempt' = 1
    /\ fetchState' = "Fetching"
    /\ log' = Append(log, Ev("request", "", FALSE))
    /\ pc' = "awaitFetch"
    /\ UNCHANGED <<navigator, lastError, oUserData, sLanguage, xhr, reloaded, storage,
                   appliedLocale, mounted, clock, outcomes, lastResponse, directoryAnswer>>

\* The fetch of the current attempt settles with r; fetchCurrentUser runs on to
\* its next await, its return or its throw (which main's first catch swallows).
FetchSettles(r) ==
    /\ pc = "awaitFetch"
    /\ outcomes' = Append(outcomes, OutcomeKind(r))
    /\ lastResponse' = r
    /\ LET step == TryBlock(attempt, MAX_RETRIES, r) IN
       CASE step.do = "logout" -> ForceLogoutAndSuspend
         [] step.do = "retry" ->
              /\ pc' = "delay"
              /\ log' = Append(log, Ev("wait", "", FALSE))
              /\ UNCHANGED <<attempt, fetchState, lastError, oUserData, xhr>>
         [] step.do = "throw" ->
              /\ fetchState' = "Failed"
              /\ lastError' = step.message
              /\ pc' = "step2"
              /\ UNCHANGED <<attempt, oUserData, xhr, log>>
         [] step.do = "return" ->
              /\ fetchState' = "Succeeded"
              /\ oUserData' = step.value
              /\ pc' = "store"
              /\ UNCHANGED <<attempt, lastError, xhr, log>>
    /\ UNCHANGED <<navigator, sLanguage, reloaded, storage, appliedLocale, mounted, clock,
                   directoryAnswer>>

\* The retry timer fires: return fetchCurrentUser(attempt + 1, ...)
TimerFires ==
    /\ pc = "delay"
    /\ clock' = clock + RETRY_DELAY
    /\ attempt' = NextAttempt(attempt)
    /\ log' = Append(log, Ev("request", "", FALSE))
    /\ pc' = "awaitFetch"
    /\ lastResponse' = NoResponse
    /\ UNCHANGED <<navigator, fetchState, lastError, oUserData, sLanguage, xhr, reloaded,
                   storage, appliedLocale, mounted, outcomes, directoryAnswer>>

XhrReloadsOnAnyChange(next, status) ==
    /\ xhr.readyState \in 1..3
    /\ ~reloaded
    /\ next \in {xhr.readyState + 1, 4}
    /\ xhr' = [readyState |-> next, status |-> IF next = 4 THEN status ELSE 0]
    /\ reloaded' = TRUE
    /\ log' = Append(log, Ev("reload", "", FALSE))
    /\ pc' = "unloaded"
    /\ UNCHANGED <<navigator, attempt, fetchState, lastError, oUserData, sLanguage, storage,
                   appliedLocale, mounted, clock, outcomes, lastResponse, directoryAnswer>>

\* xhr.onreadystatechange: the /logout request moves on; at readyState 4 the page reloads
XhrReadyStateChange(next, status) ==
    /\ xhr.readyState \in 1..3
    /\ ~reloaded
    /\ next \in {xhr.readyState + 1, 4}
    /\ xhr' = [readyState |-> next, status |-> IF next = 4 THEN status ELSE 0]
    /\ IF next = 4
       THEN /\ reloaded' = TRUE
            /\ log' = Append(log, Ev("reload", "", FALSE))
            /\ pc' = "unloaded"
       ELSE UNCHANGED <<reloaded, log, pc>>
    /\ UNCHANGED <<navigator, attempt, fetchState, lastError, oUserData, sLanguage, storage,
                   appliedLocale, mounted, clock, outcomes, lastResponse, directoryAnswer>>

StoreUserRawBody(threw) ==
    /\ pc = "store"
    /\ storage' = IF threw THEN storage ELSE lastResponse.body
    /\ log' = Append(log, Ev("setItem", "", threw))
    /\ pc' = "step2"
    /\ UNCHANGED <<navigator, attempt, fetchState, lastError, oUserData, sLanguage, xhr,
                   reloaded, appliedLocale, mounted, clock, outcomes, lastResponse,
                   directoryAnswer>>

\* sessionStorage.setItem("com:missolicitudes:userInfo", JSON.stringify(oUserData));
\* a throw is swallowed by main's first catch
StoreUser(threw) ==
    /\ pc = "store"
    /\ storage' = IF threw THEN storage ELSE JSONStringify(oUserData)
    /\ log' = Append(log, Ev("setItem", "", threw))
    /\ pc' = "step2"
    /\ UNCHANGED <<navigator, attempt, fetchState, lastError, oUserData, sLanguage, xhr,
                   reloaded, appliedLocale, mounted, clock, outcomes, lastResponse, directoryAnswer>>

\* The filter value new Filter("userId", FilterOperator.EQ, userId) carries
FilterValue(user) ==
    IF GetName(user).kind = "string" THEN GetName(user).str ELSE "undefined"

ShouldQueryDirectoryAlways(user) == TRUE

\* if (oUserData && oUserData.name)
ShouldQueryDirectory(user) == Truthy(user) /\ Truthy(GetName(user))

\* Paso 2: if (oUserData && oUserData.name) sLanguage = await fetchUserLanguageFromSFSF(...)
\* `threw`: the ODataModel constructor throws, which the function's catch turns into null
QueryDirectory(threw) ==
    /\ pc = "step2"
    /\ IF ShouldQueryDirectory(oUserData)
       THEN IF threw
            THEN /\ sLanguage' = Null
                 /\ pc' = "step3"
                 /\ log' = log
            ELSE /\ log' = Append(log, Ev("read", FilterValue(oUserData), FALSE))
                 /\ pc' = "awaitRead"
                 /\ UNCHANGED sLanguage
       ELSE /\ ~threw
            /\ pc' = "step3"
            /\ UNCHANGED <<sLanguage, log>>
    /\ UNCHANGED <<navigator, attempt, fetchState, lastError, oUserData, xhr, reloaded,
                   storage, appliedLocale, mounted, clock, outcomes, lastResponse, directoryAnswer>>

\* The success or error callback of oDataModel.read runs
DirectoryAnswerArrives(ans) ==
    /\ pc = "awaitRead"
    /\ sLanguage' = ReadResult(ans)
    /\ directoryAnswer' = ans
    /\ pc' = "step3"
    /\ UNCHANGED <<navigator, attempt, fetchState, lastError, oUserData, xhr, reloaded,
                   storage, appliedLocale, mounted, clock, outcomes, lastResponse, log>>

ResolveLanguageFixedDefault(lang) == IF ~Truthy(lang) THEN JStr("en_US") ELSE lang

\* Paso 3: if (!sLanguage) sLanguage = getBrowserLanguage()
ResolveLanguage(lang) == IF ~Truthy(lang) THEN JStr(getBrowserLanguage) ELSE lang

\* Paso 3: sap.ui.getCore().getConfiguration().setLanguage(sLanguage)
SetLanguage(threw) ==
    /\ pc = "step3"
    /\ sLanguage' = ResolveLanguage(sLanguage)
    /\ log' = Append(log, Ev("setLanguage", sLanguage'.str, threw))
    /\ IF threw
       THEN /\ pc' = "handler"
            /\ UNCHANGED appliedLocale
       ELSE /\ pc' = "mount"
            /\ appliedLocale' = sLanguage'.str
    /\ UNCHANGED <<navigator, attempt, fetchState, lastError, oUserData, xhr, reloaded,
                   storage, mounted, clock, outcomes, lastResponse, directoryAnswer>>

\* Paso 4: new ComponentContainer({...}).placeAt("content")
Mount(threw) ==
    /\ pc = "mount"
    /\ log' = Append(log, Ev("mount", "", threw))
    /\ IF threw
       THEN /\ pc' = "handler"
            /\ UNCHANGED mounted
       ELSE /\ pc' = "done"
            /\ mounted' = mounted + 1
    /\ UNCHANGED <<navigator, attempt, fetchState, lastError, oUserData, sLanguage, xhr,
                   reloaded, storage, appliedLocale, clock, outcomes, lastResponse, directoryAnswer>>

HandlerSetLanguageKeepsResolved(threw) ==
    /\ pc = "handler"
    /\ log' = Append(log, Ev("setLanguage", sLanguage.str, threw))
    /\ IF threw
       THEN /\ pc' = "unhandled"
            /\ UNCHANGED appliedLocale
       ELSE /\ pc' = "handlerMount"
            /\ appliedLocale' = sLanguage.str
    /\ UNCHANGED <<navigator, attempt, fetchState, lastError, oUserData, sLanguage, xhr,
                   reloaded, storage, mounted, clock, outcomes, lastResponse,
                   directoryAnswer>>

\* main().catch: setLanguage(getBrowserLanguage())
HandlerSetLanguage(threw) ==
    /\ pc = "handler"
    /\ log' = Append(log, Ev("setLanguage", getBrowserLanguage, threw))
    /\ IF threw
       THEN /\ pc' = "unhandled"
            /\ UNCHANGED appliedLocale
       ELSE /\ pc' = "handlerMount"
            /\ appliedLocale' = getBrowserLanguage
    /\ UNCHANGED <<navigator, attempt, fetchState, lastError, oUserData, sLanguage, xhr,
                   reloaded, storage, mounted, clock, outcomes, lastResponse, directoryAnswer>>

\* main().catch: new ComponentContainer({...}).placeAt("content")
HandlerMount(threw) ==
    /\ pc = "handlerMount"
    /\ log' = Append(log, Ev("mount", "", threw))
    /\ IF threw
       THEN /\ pc' = "unhandled"
            /\ UNCHANGED mounted
       ELSE /\ pc' = "done"
            /\ mounted' = mounted + 1
    /\ UNCHANGED <<navigator, attempt, fetchState, lastError, oUserData, sLanguage, xhr,
                   reloaded, storage, appliedLocale, clock, outcomes, lastResponse, directoryAnswer>>

Next ==
    \/ MainStart
    \/ \E r \in Responses : FetchSettles(r)
    \/ TimerFires
    \/ \E next \in 2..4, status \in {0, 200, 500} : XhrReadyStateChange(next, status)
    \/ \E threw \in BOOLEAN : StoreUser(threw)
    \/ \E threw \in BOOLEAN : QueryDirectory(threw)
    \/ \E ans \in DirectoryAnswers : DirectoryAnswerArrives(ans)
    \/ \E threw \in BOOLEAN : SetLanguage(threw)
    \/ \E threw \in BOOLEAN : Mount(threw)
    \/ \E threw \in BOOLEAN : HandlerSetLanguage(threw)
    \/ \E threw \in BOOLEAN : HandlerMount(threw)

Spec == Init /\ [][Next]_vars

\* Every request, timer and callback that is pending eventually completes.
FairSpec == Spec /\ WF_vars(Next)

----------------------------------------------------------------------------
(* Properties                                                              *)

Count(name) == Cardinality({i \in 1..Len(log) : log[i].ev = name})

Requests == Count("request")
Waits == Count("wait")
Logouts == Count("logout")

\* The answer r is a non-2xx status other than 401/403, or a thrown error
GenericFailure(r) ==
    \/ r.type = "http" /\ r.status \notin 200..299 /\ r.status \notin {401, 403}
    \/ r.type = "error"

\* A thrown error whose message contains JSON or HTML
SessionLikeThrow(r) == r.type = "error" /\ r.message \in {MsgJsonUpper, MsgHtmlUpper}

ErrorOf(r) == IF r.type = "error" THEN r.message ELSE ServerErrorMsg(r)

\* This step schedules exactly one retry wait and nothing else
RetriesOnce ==
    /\ pc' = "delay"
    /\ log' = Append(log, Ev("wait", "", FALSE))
    /\ attempt' = attempt
    /\ fetchState' = "Fetching"
    /\ xhr' = xhr

\* A pending retry wait can only end in one request for the next attempt
DelayThenRequest ==
    pc = "delay" =>
        /\ pc' = "awaitFetch"
        /\ attempt' = attempt + 1
        /\ log' = Append(log, Ev("request", "", FALSE))
        /\ clock' = clock + RETRY_DELAY

\* This step makes fetchCurrentUser fail with message msg, without wait or request
FailsWith(msg) ==
    /\ fetchState' = "Failed"
    /\ lastError' = msg
    /\ log' = log
    /\ clock' = clock
    /\ pc' \notin {"delay", "awaitFetch", "suspended"}

\* C1 as claimed: every non-2xx answer other than 401/403 and every thrown error
\* is retried after exactly one wait while attempt < maxRetries, and at
\* attempt = maxRetries fails the call with that attempt's error.
C1GenericFailureAlwaysRetried ==
    [][ /\ (pc = "awaitFetch" /\ GenericFailure(lastResponse')) =>
              IF attempt < MAX_RETRIES
              THEN RetriesOnce
              ELSE FailsWith(ErrorOf(lastResponse'))
        /\ DelayThenRequest ]_vars

\* C1 amended: the same, except that a thrown error on attempt 1 whose message
\* contains JSON or HTML is not retried (it forces re-authentication).
C1GenericFailureRetried ==
    [][ /\ (/\ pc = "awaitFetch"
            /\ GenericFailure(lastResponse')
            /\ ~(attempt = 1 /\ SessionLikeThrow(lastResponse'))) =>
              IF attempt < MAX_RETRIES
              THEN RetriesOnce
              ELSE FailsWith(ErrorOf(lastResponse'))
        /\ DelayThenRequest ]_vars

C1Witness ==
    /\ Len(outcomes) = MAX_RETRIES
    /\ fetchState = "Failed"
    /\ Waits = MAX_RETRIES - 1
    /\ Requests = MAX_RETRIES
    /\ lastResponse.type = "error"
    /\ lastError = lastResponse.message

\* C2: an attempt answered with 401 or 403 is the last one: one logout request,
\* no retry wait after it, the request count stays at that attempt's number and
\* the user-fetch neither returns a user nor fails.
C2AuthFailureEscalates ==
    \A k \in 1..Len(outcomes) :
        outcomes[k] = "auth" =>
            /\ k = Len(outcomes)
            /\ attempt = k
            /\ Requests = k
            /\ Waits = k - 1
            /\ Logouts = 1
            /\ fetchState = "Escalated"
            /\ oUserData = Null
            /\ lastError = <<>>
            /\ pc \in {"suspended", "unloaded"}

C2Witness ==
    /\ Len(outcomes) = MAX_RETRIES
    /\ outcomes[MAX_RETRIES] = "auth"
    /\ lastResponse.status = 403
    /\ Logouts = 1
    /\ reloaded

\* Bodies that are HTML, or that JSON.parse rejects, or the JSON literal null
NullYieldingBodies ==
    {BodyHtml, BodyDoctype, BodyJsonWithHtml, BodyGarbage, BodyEmpty, BodyNullLiteral}

\* C3: an attempt answered with HTTP success and a body for which
\* parseJsonResponse yields null forces re-authentication and suspends the
\* user-fetch: no retry, no failure, no user.
C3NonJsonBodyEscalates ==
    /\ (/\ lastResponse.type = "http"
        /\ lastResponse.status \in 200..299
        /\ lastResponse.body \in NullYieldingBodies) =>
            /\ attempt = Len(outcomes)
            /\ Requests = attempt
            /\ Waits = attempt - 1
            /\ Logouts = 1
            /\ fetchState = "Escalated"
            /\ oUserData = Null
            /\ lastError = <<>>
            /\ pc \in {"suspended", "unloaded"}
    /\ \A k \in 1..Len(outcomes) : outcomes[k] = "nonjson" => k = Len(outcomes)

C3Witness ==
    /\ lastResponse.type = "http"
    /\ lastResponse.status = 200
    /\ lastResponse.body = BodyJsonWithHtml
    /\ attempt = 3
    /\ fetchState = "Escalated"
    /\ xhr.readyState = 4

\* C4: after the logout request is issued the run performs no further bootstrap
\* step: the only later event is the page reload, and nothing is stored,
\* queried, applied or mounted.
C4NothingAfterLogout ==
    \A i \in 1..Len(log) :
        log[i].ev = "logout" =>
            /\ \A j \in (i + 1)..Len(log) : log[j].ev = "reload"
            /\ Count("setItem") = 0
            /\ Count("read") = 0
            /\ Count("setLanguage") = 0
            /\ Count("mount") = 0
            /\ storage = <<>>
            /\ appliedLocale = ""
            /\ mounted = 0
            /\ pc \in {"suspended", "unloaded"}

C4Witness ==
    /\ Logouts = 1
    /\ reloaded
    /\ Len(outcomes) = 2
    /\ log[Len(log)].ev = "reload"

\* The answer r is HTTP success with a JSON body lacking a non-empty name
NoNameBodies == {BodyEmptyName, BodyNoName, BodyNumber}

NoNameAnswer(r) ==
    r.type = "http" /\ r.status \in 200..299 /\ r.body \in NoNameBodies

\* C5 as claimed: on an attempt k > 1 a JSON body without a name fails the call
\* at once with the InvalidUserData error, without wait or further request.
C5MissingNameFailsImmediately ==
    [][ (pc = "awaitFetch" /\ attempt > 1 /\ NoNameAnswer(lastResponse')) =>
            FailsWith(InvalidUserMsg) ]_vars

\* C5 amended: on an attempt k > 1 a JSON body without a name is handled like a
\* retryable failure: one wait and a request for attempt k+1 while
\* k < maxRetries; the call fails with InvalidUserData only at k = maxRetries.
C5MissingNameRetried ==
    [][ /\ (pc = "awaitFetch" /\ attempt > 1 /\ NoNameAnswer(lastResponse')) =>
              IF attempt < MAX_RETRIES
              THEN RetriesOnce
              ELSE FailsWith(InvalidUserMsg)
        /\ DelayThenRequest ]_vars

C5Witness ==
    /\ Len(outcomes) = MAX_RETRIES
    /\ outcomes[2] = "noname"
    /\ outcomes[MAX_RETRIES] = "noname"
    /\ fetchState = "Failed"
    /\ lastError = InvalidUserMsg
    /\ Requests = MAX_RETRIES

\* C6 as claimed: a JSON body without a name on attempt 1 forces
\* re-authentication and no second request is made.
C6MissingNameOnFirstAttemptEscalates ==
    (Len(outcomes) >= 1 /\ outcomes[1] = "noname") =>
        /\ Logouts = 1
        /\ Requests = 1
        /\ fetchState = "Escalated"

\* C6 amended: a JSON body without a name on attempt 1 is not reclassified as a
\* session error: no logout request is issued, one retry wait follows and then
\* the request of attempt 2.
C6MissingNameOnFirstAttemptRetried ==
    [][ /\ (pc = "awaitFetch" /\ attempt = 1 /\ NoNameAnswer(lastResponse')) =>
              /\ RetriesOnce
              /\ xhr'.readyState = 0
              /\ \A i \in 1..Len(log') : log'[i].ev # "logout"
        /\ (pc = "delay" /\ attempt = 1) =>
              /\ pc' = "awaitFetch"
              /\ attempt' = 2
              /\ log' = Append(log, Ev("request", "", FALSE)) ]_vars

C6Witness ==
    /\ Len(outcomes) = 1
    /\ outcomes[1] = "noname"
    /\ pc = "awaitFetch"
    /\ attempt = 2
    /\ Requests = 2
    /\ Waits = 1
    /\ Logouts = 0

AllGeneric(n) == \A i \in 1..n : outcomes[i] = "generic"

\* C7: after k generic failures (k in 0..4) and a valid user on attempt k+1,
\* fetchCurrentUser returns that user after exactly k+1 requests and k waits of
\* retryDelay each, every wait lying between two consecutive requests; and k < 5
\* generic failures never end the chain.
C7ReturnsUserAfterRetries ==
    /\ (Len(outcomes) \in 1..(MAX_RETRIES - 1) /\ AllGeneric(Len(outcomes))) =>
            /\ fetchState = "Fetching"
            /\ pc \in {"delay", "awaitFetch"}
    /\ (fetchState = "Succeeded" /\ AllGeneric(Len(outcomes) - 1)) =>
            LET k == Len(outcomes) - 1 IN
            /\ k \in 0..(MAX_RETRIES - 1)
            /\ attempt = k + 1
            /\ Requests = k + 1
            /\ Waits = k
            /\ clock = k * RETRY_DELAY
            /\ \A i \in 1..k : log[2 * i - 1].ev = "request" /\ log[2 * i].ev = "wait"
            /\ log[2 * k + 1].ev = "request"
            /\ oUserData = JSONParse(lastResponse.body)
            /\ oUserData.kind = "object"
            /\ oUserData.fields.name \in {"ana", "bob"}

C7Witness ==
    /\ fetchState = "Succeeded"
    /\ Len(outcomes) = MAX_RETRIES
    /\ AllGeneric(MAX_RETRIES - 1)
    /\ Waits = 4
    /\ clock = 4000
    /\ oUserData = JObj([name |-> "ana"])

FailureKinds == {"generic", "thrownJsonHtml", "noname"}

AllAttemptsFailed ==
    /\ Len(outcomes) = MAX_RETRIES
    /\ \A i \in 1..MAX_RETRIES : outcomes[i] \in FailureKinds

FrameworkThrew == \E i \in 1..Len(log) : log[i].threw

\* C8: when all 5 attempts fail without 401/403, fetchCurrentUser fails after
\* exactly 5 requests and main goes on: nothing is stored, the Directory Service
\* is not queried, every locale applied is the browser-fallback locale, and the
\* root component gets mounted (unless a framework call throws).
C8ExhaustedRetriesStillMount ==
    /\ [](AllAttemptsFailed =>
            /\ fetchState = "Failed"
            /\ Requests = MAX_RETRIES
            /\ Waits = MAX_RETRIES - 1
            /\ Logouts = 0
            /\ oUserData = Null
            /\ storage = <<>>
            /\ Count("setItem") = 0
            /\ Count("read") = 0
            /\ \A i \in 1..Len(log) :
                  log[i].ev = "setLanguage" => log[i].arg = getBrowserLanguage
            /\ appliedLocale \in {"", getBrowserLanguage}
            /\ pc = "done" => (mounted = 1 /\ appliedLocale = getBrowserLanguage))
    /\ (AllAttemptsFailed ~> (mounted = 1 \/ FrameworkThrew))

C8Witness ==
    /\ AllAttemptsFailed
    /\ pc = "done"
    /\ mounted = 1
    /\ ~FrameworkThrew
    /\ appliedLocale = "ca_ES"
    /\ storage = <<>>

C10LocaleAlwaysSupported ==
    \A i \in 1..Len(log) :
        log[i].ev = "setLanguage" => log[i].arg \in SupportedLocales

DirectoryGaveLocale ==
    /\ directoryAnswer.type = "success"
    /\ directoryAnswer.hasResults
    /\ Len(directoryAnswer.results) > 0
    /\ directoryAnswer.results[1].defaultLocale.kind = "string"
    /\ directoryAnswer.results[1].defaultLocale.str # ""

\* C10 amended: every locale passed to setLanguage is non-empty; it is one of
\* es_ES, ca_ES, en_US when it comes from the browser fallback, and it is the
\* first record's defaultLocale, unvalidated, when the Directory Service gave one.
C10LocaleNonEmpty ==
    \A i \in 1..Len(log) :
        log[i].ev = "setLanguage" =>
            /\ log[i].arg # ""
            /\ IF DirectoryGaveLocale /\ (\A j \in 1..(i - 1) : log[j].ev # "setLanguage")
               THEN log[i].arg = directoryAnswer.results[1].defaultLocale.str
               ELSE log[i].arg = getBrowserLanguage /\ log[i].arg \in SupportedLocales

C10Witness ==
    /\ appliedLocale = "fr_FR"
    /\ \E i \in 1..Len(log) : log[i].ev = "setLanguage" /\ log[i].arg = "fr_FR"
    /\ pc = "done"

----------------------------------------------------------------------------
(* getBrowserLanguage on its own, over a wider set of browser language tags *)

TagsEs ==
    { <<"e", "s">>,
      <<"E", "S">>,
      <<"E", "s">>,
      <<"e", "s", "-", "e", "s">>,
      <<"e", "s", "-", "E", "S">>,
      <<"E", "S", "-", "E", "S">>,
      <<"e", "s", "_", "e", "s">>,
      <<"e", "s", "_", "E", "S">>,
      <<"E", "S", "_", "e", "s">> }

TagsCa ==
    { <<"c", "a">>,
      <<"C", "A">>,
      <<"c", "A">>,
      <<"c", "a", "-", "e", "s">>,
      <<"c", "a", "-", "E", "S">>,
      <<"C", "A", "-", "E", "S">>,
      <<"c", "a", "_", "e", "s">>,
      <<"c", "a", "_", "E", "S">>,
      <<"C", "a", "_", "E", "s">> }

TagsEn ==
    { <<"e", "n">>,
      <<"E", "N">>,
      <<"E", "n">>,
      <<"e", "n", "-", "u", "s">>,
      <<"e", "n", "-", "U", "S">>,
      <<"E", "N", "-", "U", "S">>,
      <<"e", "n", "_", "u", "s">>,
      <<"e", "n", "_", "U", "S">>,
      <<"E", "N", "_", "u", "s">> }

TagsOther ==
    { <<"e", "s", "-", "m", "x">>,
      <<"e", "s", "-", "M", "X">>,
      <<"c", "a", "-", "f", "r">>,
      <<"e", "n", "-", "a", "u">>,
      <<"E", "N", "-", "A", "U">>,
      <<"f", "r">>,
      <<"F", "R">>,
      <<"f", "r", "-", "F", "R">>,
      <<"e">>,
      <<"e", "s", "-">>,
      <<"e", "s", "_">>,
      <<"x">>,
      <<"e", "s", "E", "S">>,
      <<"e", "s", "-", "e", "s", "-", "x">> }

LangTags == TagsEs \cup TagsCa \cup TagsEn \cup TagsOther

\* navigator.language present; absent with navigator.userLanguage present; both absent
LangNavigators ==
    { [language |-> t, userLanguage |-> <<>>] : t \in LangTags }
    \cup { [language |-> t, userLanguage |-> <<"c", "a">>] : t \in LangTags }
    \cup { [language |-> <<>>, userLanguage |-> t] : t \in LangTags \cup {<<>>} }

LangInit ==
    /\ navigator \in LangNavigators
    /\ pc = "lang"
    /\ attempt = 0
    /\ fetchState = "Idle"
    /\ lastError = <<>>
    /\ oUserData = Null
    /\ sLanguage = Null
    /\ xhr = [readyState |-> 0, status |-> 0]
    /\ reloaded = FALSE
    /\ storage = <<>>
    /\ appliedLocale = ""
    /\ mounted = 0
    /\ clock = 0
    /\ outcomes = <<>>
    /\ lastResponse = NoResponse
    /\ directoryAnswer = NoAnswer
    /\ log = <<>>

\* const sLang = getBrowserLanguage()
CallGetBrowserLanguage ==
    /\ pc = "lang"
    /\ sLanguage' = JStr(getBrowserLanguage)
    /\ pc' = "langDone"
    /\ UNCHANGED <<navigator, attempt, fetchState, lastError, oUserData, xhr, reloaded,
                   storage, appliedLocale, mounted, clock, outcomes, lastResponse,
                   directoryAnswer, log>>

LangNext == CallGetBrowserLanguage

LangSpec == LangInit /\ [][LangNext]_vars

\* The tag the browser reports: language, else userLanguage, else none
ReportedTag == IF navigator.language # <<>> THEN navigator.language ELSE navigator.userLanguage

\* The mapping table, written out per tag as the browser spells it
TableLocale(t) ==
    CASE t \in TagsEs -> "es_ES"
      [] t \in TagsCa -> "ca_ES"
      [] t \in TagsEn -> "en_US"
      [] OTHER -> "en_US"

\* C11: getBrowserLanguage returns the table entry of the lower-cased tag for
\* es, es-es, es_es, ca, ca-es, ca_es, en, en-us, en_us in any letter case, and
\* en_US for every other tag, an absent tag included.
C11BrowserLanguageTable ==
    /\ getBrowserLanguage = TableLocale(ReportedTag)
    /\ getBrowserLanguage \in SupportedLocales
    /\ ReportedTag \in TagsOther \cup {<<>>} => getBrowserLanguage = "en_US"
    /\ pc = "langDone" => sLanguage = JStr(TableLocale(ReportedTag))

C11Witness ==
    /\ pc = "langDone"
    /\ navigator.language = <<"C", "A", "-", "E", "S">>
    /\ sLanguage = JStr("ca_ES")

----------------------------------------------------------------------------
(* Properties of locale resolution, the handler and the side effects       *)

\* The locale main is to apply once a user is resolved
LocaleToApply ==
    IF DirectoryGaveLocale
    THEN directoryAnswer.results[1].defaultLocale.str
    ELSE getBrowserLanguage

IsFirstSetLanguage(i) ==
    log[i].ev = "setLanguage" /\ \A j \in 1..(i - 1) : log[j].ev # "setLanguage"

C12State ==
    fetchState = "Succeeded" =>
        /\ pc = "step3" =>
              sLanguage = IF DirectoryGaveLocale
                          THEN directoryAnswer.results[1].defaultLocale
                          ELSE Null
        /\ \A i \in 1..Len(log) :
              IsFirstSetLanguage(i) =>
                  /\ log[i].arg = LocaleToApply
                  /\ sLanguage = JStr(LocaleToApply)
                  /\ pc = "mount" => appliedLocale = LocaleToApply

\* C12: once a user is resolved, main applies the first record's defaultLocale
\* when it is non-empty, and the browser-fallback locale when the query errors,
\* returns no records or the first record's defaultLocale is empty or absent;
\* the Directory Service step never throws into main.
C12DirectoryLocaleOrFallback ==
    [][ /\ C12State'
        /\ pc \in {"step2", "awaitRead"} => pc' \in {"awaitRead", "step3"} ]_vars

C12Witness ==
    /\ pc = "done"
    /\ fetchState = "Succeeded"
    /\ navigator.language = <<"e", "s", "-", "E", "S">>
    /\ directoryAnswer.results = <<Rec(JStr("ca_ES")), Rec(JStr("en_US"))>>
    /\ appliedLocale = "ca_ES"
    /\ ~FrameworkThrew

\* The step just made was a call of main (setLanguage or mount) that threw
MainCallThrew ==
    /\ pc \in {"step3", "mount"}
    /\ Len(log') = Len(log) + 1
    /\ log'[Len(log')].threw

\* C13: when setLanguage or the mount throws in main, the top-level handler
\* applies the locale obtained from the browser fallback alone and then mounts
\* the root component; it makes no Identity Endpoint or Directory Service request.
C13HandlerFallsBackAndMounts ==
    [][ /\ MainCallThrew => pc' = "handler"
        /\ pc = "handler" =>
              \E t \in BOOLEAN :
                  /\ log' = Append(log, Ev("setLanguage", getBrowserLanguage, t))
                  /\ mounted' = mounted
                  /\ IF t
                     THEN pc' = "unhandled" /\ appliedLocale' = appliedLocale
                     ELSE pc' = "handlerMount" /\ appliedLocale' = getBrowserLanguage
        /\ pc = "handlerMount" =>
              \E t \in BOOLEAN :
                  /\ log' = Append(log, Ev("mount", "", t))
                  /\ appliedLocale = getBrowserLanguage
                  /\ appliedLocale' = appliedLocale
                  /\ IF t
                     THEN pc' = "unhandled" /\ mounted' = mounted
                     ELSE pc' = "done" /\ mounted' = mounted + 1
        /\ pc \in {"handler", "handlerMount"} =>
              /\ Requests' = Requests
              /\ Cardinality({i \in 1..Len(log') : log'[i].ev = "read"}) = Count("read")
              /\ storage' = storage ]_vars

C13Witness ==
    /\ pc = "done"
    /\ mounted = 1
    /\ Count("read") = 1
    /\ \E i \in 1..Len(log) :
          log[i].ev = "setLanguage" /\ log[i].arg = "fr_FR" /\ log[i].threw
    /\ log[Len(log) - 1] = Ev("setLanguage", getBrowserLanguage, FALSE)
    /\ log[Len(log)] = Ev("mount", "", FALSE)
    /\ appliedLocale = getBrowserLanguage

HasNonEmptyName(v) ==
    v.kind = "object" /\ "name" \in DOMAIN v.fields /\ v.fields.name # ""

\* C14: the userInfo key is written at most once, only after fetchCurrentUser
\* returned a user with a non-empty name, with the JSON text of exactly that
\* user, and before the Directory Service is queried; it is never written when
\* the retries are exhausted or re-authentication is forced.
C14UserInfoWrittenOnce ==
    /\ Count("setItem") <= 1
    /\ \A i \in 1..Len(log) :
          log[i].ev = "setItem" =>
              /\ fetchState = "Succeeded"
              /\ HasNonEmptyName(oUserData)
              /\ \A j \in 1..Len(log) : log[j].ev = "read" => i < j
    /\ storage # <<>> =>
          /\ \E i \in 1..Len(log) : log[i].ev = "setItem" /\ ~log[i].threw
          /\ JSONParse(storage) = oUserData
          /\ JSONParse(lastResponse.body) = oUserData
          /\ JSONStringify(JSONParse(storage)) = storage
    /\ fetchState # "Succeeded" => (storage = <<>> /\ Count("setItem") = 0)
    /\ Count("read") >= 1 => Count("setItem") = 1

C14Witness ==
    /\ storage = BodyUser
    /\ lastResponse.body = BodyUserPadded
    /\ oUserData = JObj([name |-> "ana"])
    /\ Count("read") = 1
    /\ pc = "done"

\* C15: the Directory Service is queried at most once, and only once the
\* user-fetch has returned a user with a non-empty name, for that name; never
\* while the user-fetch is in flight, after it failed or after forced
\* re-authentication.
C15DirectoryQueriedOnlyForUser ==
    /\ Count("read") <= 1
    /\ \A i \in 1..Len(log) :
          log[i].ev = "read" =>
              /\ fetchState = "Succeeded"
              /\ HasNonEmptyName(oUserData)
              /\ log[i].arg = oUserData.fields.name
              /\ \A j \in 1..Len(log) : log[j].ev \in {"request", "wait"} => j < i
              /\ Logouts = 0
    /\ pc = "awaitRead" => (Count("read") = 1 /\ fetchState = "Succeeded")
    /\ fetchState \in {"Idle", "Fetching", "Failed", "Escalated"} => Count("read") = 0

C15Witness ==
    /\ pc = "awaitRead"
    /\ Len(outcomes) = 3
    /\ oUserData = JObj([name |-> "bob", email |-> "b@x"])
    /\ log[Len(log)] = Ev("read", "bob", FALSE)

\* C16: the page reloads exactly when the /logout request reaches readyState 4,
\* whatever its status: never before the request is sent or while it is
\* pending, and always once it has completed.
C16ReloadOnlyAfterLogoutCompletes ==
    /\ reloaded <=> xhr.readyState = 4
    /\ Count("reload") = (IF reloaded THEN 1 ELSE 0)
    /\ xhr.readyState \in 0..3 => pc # "unloaded"
    /\ xhr.readyState = 0 <=> Logouts = 0
    /\ \A i \in 1..Len(log) :
          log[i].ev = "reload" =>
              /\ i = Len(log)
              /\ \E j \in 1..(i - 1) : log[j].ev = "logout"
              /\ xhr.status \in {0, 200, 500}

C16Witness ==
    /\ reloaded
    /\ xhr = [readyState |-> 4, status |-> 500]
    /\ log[Len(log)].ev = "reload"
    /\ log[Len(log) - 1].ev = "logout"

\* This step issues the logout request and suspends the user-fetch
EscalatesNow ==
    /\ pc' = "suspended"
    /\ log' = Append(log, Ev("logout", "", FALSE))
    /\ fetchState' = "Escalated"
    /\ xhr'.readyState = 1
    /\ attempt' = attempt

\* C17: a thrown error whose message contains JSON or HTML forces
\* re-authentication, without retry, on attempt 1; on an attempt k with
\* 1 < k < maxRetries it is retried after one wait; on attempt maxRetries it is
\* surfaced to the caller.
C17SessionLikeErrorByAttempt ==
    [][ /\ (pc = "awaitFetch" /\ SessionLikeThrow(lastResponse')) =>
              CASE attempt = 1 -> EscalatesNow
                [] attempt > 1 /\ attempt < MAX_RETRIES -> RetriesOnce
                [] OTHER -> FailsWith(lastResponse'.message)
        /\ pc = "suspended" => (pc' = "suspended" \/ pc' = "unloaded") /\ Requests' = Requests
        /\ DelayThenRequest ]_vars

C17Witness ==
    /\ Len(outcomes) = MAX_RETRIES
    /\ outcomes[3] = "thrownJsonHtml"
    /\ outcomes[MAX_RETRIES] = "thrownJsonHtml"
    /\ fetchState = "Failed"
    /\ lastError = MsgHtmlUpper
    /\ Logouts = 0

Terminal == {"Succeeded", "Failed", "Escalated"}

\* C18: when requests and delays complete, every user-fetch chain reaches a
\* terminal outcome (Succeeded, Failed or Escalated), keeps that one outcome,
\* and while it is still retrying the number of the attempt in flight grows
\* with every request up to maxRetries, so it cannot retry forever.
C18UserFetchTerminates ==
    /\ <>(fetchState \in Terminal)
    /\ [][(fetchState \in Terminal) =>
            (fetchState' = fetchState /\ Requests' = Requests /\ Waits' = Waits)]_vars
    /\ [](fetchState = "Fetching" =>
            /\ pc \in {"awaitFetch", "delay"}
            /\ Requests = attempt
            /\ attempt <= MAX_RETRIES
            /\ Waits = attempt - (IF pc = "awaitFetch" THEN 1 ELSE 0))
    /\ [](fetchState \in Terminal => pc \notin {"start", "awaitFetch", "delay"})

C18Witness ==
    /\ fetchState = "Succeeded"
    /\ Requests = 4
    /\ outcomes[1] = "generic"
    /\ outcomes[2] = "noname"
    /\ outcomes[3] = "thrownJsonHtml"
    /\ outcomes[4] = "user"

\* C19: a run issues at most maxRetries (5) Identity requests; the n-th
\* request is made by attempt number n, so the attempt numbers are 1, 2, ..., n
\* in order and none is issued twice.
C19RequestsNumberedInOrder ==
    [][ /\ (Requests' # Requests) =>
              /\ Requests' = Requests + 1
              /\ attempt' = Requests'
              /\ pc' = "awaitFetch"
        /\ (attempt' # attempt) => (Requests' = Requests + 1)
        /\ Requests' <= MAX_RETRIES
        /\ Len(outcomes') <= Requests' ]_vars

C19Witness ==
    /\ Requests = MAX_RETRIES
    /\ attempt = MAX_RETRIES
    /\ outcomes = <<"generic", "noname", "generic", "thrownJsonHtml", "generic">>

\* The i-th answer is one that triggers forced re-authentication
TriggersLogout(i) ==
    \/ outcomes[i] \in {"auth", "nonjson"}
    \/ i = 1 /\ outcomes[i] = "thrownJsonHtml"

\* C20: the logout request is issued at most once per run; it is issued by the
\* attempt whose answer triggers it, no earlier answer was a trigger, and no
\* wait, request or second logout follows it in the same or a later attempt.
C20LogoutAtMostOnce ==
    /\ Logouts <= 1
    /\ Logouts = 1 =>
          /\ fetchState = "Escalated"
          /\ outcomes # <<>>
          /\ TriggersLogout(Len(outcomes))
          /\ attempt = Len(outcomes)
          /\ Requests = Len(outcomes)
          /\ Waits = Len(outcomes) - 1
    /\ \A i \in 1..Len(outcomes) :
          TriggersLogout(i) => (i = Len(outcomes) /\ Logouts = 1)

C20Witness ==
    /\ Logouts = 1
    /\ outcomes = <<"thrownJsonHtml">>
    /\ lastResponse.type = "error"
    /\ pc = "suspended"

====
